---- MODULE Spec2Model ----
(***************************************************************************)
(* The Solana voting program of src/Voting.rs as a state machine.          *)
(*                                                                         *)
(* The program keeps no state of its own: its state is the host ledger     *)
(* (accounts keyed by address), read and written through the AccountInfo   *)
(* slice handed to process_instruction. One action per instruction branch  *)
(* of process_instruction; each action runs the whole handler, the         *)
(* cross-program create_account call and the host's all-or-nothing commit  *)
(* included.                                                               *)
(*                                                                         *)
(* Abstractions: a hash (keccak for the discriminators, sha256 inside      *)
(* find_program_address) is its preimage, so it is injective exactly where *)
(* the preimages differ; a Pubkey is a string; account data is the record  *)
(* its borsh bytes decode to, with the byte length kept where the code     *)
(* depends on it.                                                          *)
(***************************************************************************)
EXTENDS Integers, Sequences, FiniteSets, TLC

VARIABLES
    ledger,   \* host ledger: address -> [owner, data]
    clock,    \* clock sysvar, unix_timestamp
    last      \* the invocation whose result is being surfaced to the caller

vars == <<ledger, clock, last>>

---------------------------------------------------------------------------
(* Bounds of the model *)

\* timestamps range over 0..MaxTime and one value past the maximal duration
MaxTime == 2

---------------------------------------------------------------------------
(* Program constants *)

MAX_VOTING_TIME == 1209600

\* title.len() < 10 is rejected
MIN_TITLE_LEN == 10

\* solana_program::pubkey::MAX_SEED_LEN: a longer seed makes
\* find_program_address panic and create_program_address fail
MAX_SEED_LEN == 32

\* find_program_address starts its search at bump 255; the bump it returns
\* is a function of the seeds, modelled as the first candidate
FIRST_BUMP == 255

\* width of the tag compared with the discriminators
TAG_LEN == 8

program_id == "VotingProgram1111111111111111111"

system_program_address == "11111111111111111111111111111111"

\* hash(b"...").0[..8], modelled by the preimage
create_voting_ix == "instruction:create_voting"

vote_ix == "instruction:vote"

update_vote_ix == "instruction:update_vote"

vote_acc == "account:vote"

user_voting_acc == "account:user_voting"

\* space of the two account kinds
VoteMainAccountSpace == 8 + 32 + 4 + 4 + (4 + 50)

UserVotingAccountSpace == 8 + 4 + 1 + (4 + 50)

---------------------------------------------------------------------------
(* Input domains *)

Times == (0 .. MaxTime) \cup {MAX_VOTING_TIME + 1}

Users == {"alice", "bob"}

ShortTitle == "Pets"

GoodTitle == "Best Pet Ever!"

LongTitle == "Which pet is the best pet of all the pets?"

Titles == {ShortTitle, GoodTitle, LongTitle}

SystemProgramKeys == {system_program_address, "NotTheSystemProgram1111111111111"}

\* the two domain separators a client may derive a poll address with
PollSeparators == {"voting_account", "vote_account"}

\* an instruction payload shorter than the 8-byte tag
ShortPayload == "short"

OtherPayloads == {"instruction:close_voting", ShortPayload}

---------------------------------------------------------------------------
(* Address derivation (solana_program::pubkey, as called by the program) *)

RECURSIVE Concat(_)
\* the hasher is fed the seeds one after the other
Concat(seeds) == IF seeds = <<>> THEN "" ELSE Head(seeds) \o Concat(Tail(seeds))

\* Pubkey::create_program_address(seeds ++ [bump], program_id)
create_program_address(seeds, bump) ==
    "pda:" \o Concat(seeds) \o ":" \o ToString(bump)

SeedTooLong(seeds) == \E i \in DOMAIN seeds : Len(seeds[i]) > MAX_SEED_LEN

\* Pubkey::find_program_address(seeds, program_id); "panic" when no bump is
\* viable, which is the case of a seed longer than MAX_SEED_LEN
find_program_address(seeds) ==
    IF SeedTooLong(seeds)
    THEN [panic |-> TRUE]
    ELSE [panic |-> FALSE,
          key   |-> create_program_address(seeds, FIRST_BUMP),
          bump  |-> FIRST_BUMP]

\* a key that is no user's and no derived address
SomeKey == "SomeOtherKey11111111111111111111"

\* the address a client supplies for a poll: derived with one of the two
\* separators; for a title no address can be derived from, some key
ClientPollKey(sep, title) ==
    IF SeedTooLong(<<sep, title>>)
    THEN SomeKey
    ELSE create_program_address(<<sep, title>>, FIRST_BUMP)

\* the address a client supplies for the voter record of (title, user)
ClientVoterKey(title, user) ==
    IF SeedTooLong(<<"user_vote", title, user>>)
    THEN SomeKey
    ELSE create_program_address(<<"user_vote", title, user>>, FIRST_BUMP)

PollKeys == {ClientPollKey(sep, t) : sep \in PollSeparators, t \in Titles}

VoterKeys == {ClientVoterKey(t, u) : t \in Titles, u \in Users}

Addresses == Users \cup PollKeys \cup VoterKeys \cup {SomeKey}

---------------------------------------------------------------------------
(* Ledger *)

\* an address nothing was ever allocated at: system-owned, no data
NoAccount == [owner |-> system_program_address, data |-> [tag |-> "empty"]]

\* freshly allocated data: `space` zero bytes
ZeroData(space) == [tag |-> "zero", space |-> space]

Genesis == [a \in Addresses |-> NoAccount]

\* borsh size of a VoteMainAccount / UserVotingAccount
VoteMainAccountSize(r) == 8 + 32 + 4 + 4 + (4 + Len(r.title))

UserVotingAccountSize(r) == 8 + 4 + 1 + (4 + Len(r.voted_to))

\* length in bytes of an account's data
DataLen(d) ==
    CASE d.tag = "empty"         -> 0
      [] d.tag = "zero"          -> d.space
      [] d.tag = vote_acc        -> VoteMainAccountSpace
      [] d.tag = user_voting_acc -> UserVotingAccountSpace

---------------------------------------------------------------------------
(* Collaborators reached through the program's calls *)

\* what a handler returns: the ProgramResult, the source line it left at,
\* and the ledger as the handler has it at that moment
Return(result, line, led) == [result |-> result, line |-> line, ledger |-> led]

\* RefCell: borrow_mut() panics while a Ref of the same cell is alive
BorrowMutPanics(held, key) == key \in held

\* faulty variant of create_account: the allocator does not fail on an address in use
create_account_overwrites(led, to, space) ==
    Return("Ok", 0,
           [led EXCEPT ![to] = [owner |-> program_id, data |-> ZeroData(space)]])

\* system_instruction::create_account as the system program executes it:
\* the target must be unused; it becomes program-owned, `space` zero bytes
create_account(led, to, space) ==
    IF led[to] # NoAccount
    THEN Return("AccountAlreadyInUse", 0, led)
    ELSE Return("Ok", 0,
                [led EXCEPT ![to] = [owner |-> program_id, data |-> ZeroData(space)]])

\* faulty variant of invoke_signed: the allocation is carried out whoever signs and
\* whatever the target holds
invoke_signed_unchecked(led, from, from_signer, to, space, held, signer_seeds, bump) ==
    Return("Ok", 0,
           [led EXCEPT ![to] = [owner |-> program_id, data |-> ZeroData(space)]])

\* program::invoke_signed of a create_account instruction. `from` and `to`
\* must both sign: `from` by its transaction signature, `to` (a program
\* address, which has no private key) only by signer seeds that derive to it.
\* Seeds that derive to an address on the curve are rejected as well; both
\* outcomes fail the call, and the model reports the first.
invoke_signed(led, from, from_signer, to, space, held, signer_seeds, bump) ==
    LET signers == (IF from_signer THEN {from} ELSE {})
                       \cup {create_program_address(signer_seeds, bump)}
    IN  IF \E k \in {from, to} : k \in held
        THEN Return("AccountBorrowFailed", 0, led)
        ELSE IF SeedTooLong(signer_seeds)
        THEN Return("MaxSeedLengthExceeded", 0, led)
        ELSE IF from \notin signers \/ to \notin signers
        THEN Return("PrivilegeEscalation", 0, led)
        ELSE create_account(led, to, space)

\* results of invoke_signed that are a failure of the allocation
AllocationFailures ==
    {"AccountBorrowFailed", "MaxSeedLengthExceeded", "PrivilegeEscalation",
     "AccountAlreadyInUse"}

---------------------------------------------------------------------------
(* create_voting *)

CreateVotingPdaSeeds(title) == <<"voting_account", title>>

CreateVotingSignerSeeds(title, user) == <<"new_voting_account", title, user>>

\* faulty variant of CreateVotingTitleInvalid: the comparison turned round
CreateVotingTitleInvalidInverted(title) == Len(title) > MIN_TITLE_LEN

CreateVotingTitleInvalid(title) == Len(title) < MIN_TITLE_LEN

create_voting(led, now, tx) ==
    IF tx.user_signer = FALSE
    THEN Return("UserSigningNeeded", 120, led)
    ELSE IF tx.user_writable = FALSE
    THEN Return("UsersAccountMustBeMutable", 124, led)
    ELSE IF tx.pda_writable = FALSE
    THEN Return("PDAsAccountMustBeMutable", 128, led)
    ELSE IF tx.system_program # system_program_address
    THEN Return("InvalidSystemProgram", 132, led)
    ELSE LET found == find_program_address(CreateVotingPdaSeeds(tx.title)) IN
    IF found.panic
    THEN Return("Panic", 135, led)
    ELSE IF found.key # tx.pda
    THEN Return("InvalidPdaAddress", 143, led)
    ELSE IF tx.starts_at < now
    THEN Return("InvalidStartingTime", 147, led)
    ELSE IF tx.ends_at <= tx.starts_at
    THEN Return("InvalidEndingTime", 151, led)
    ELSE IF CreateVotingTitleInvalid(tx.title)
    THEN Return("TitleInvalidLength", 155, led)
    ELSE IF (tx.ends_at - tx.starts_at) > MAX_VOTING_TIME
    THEN Return("MaxVotingTimeExceeded", 159, led)
    ELSE LET cpi == invoke_signed(led, tx.user, tx.user_signer, found.key,
                                  VoteMainAccountSpace, {},
                                  CreateVotingSignerSeeds(tx.title, tx.user),
                                  found.bump) IN
    IF cpi.result # "Ok"
    THEN Return(cpi.result, 185, led)
    ELSE LET held == {tx.pda}      \* _data = pda.data.borrow(), alive to the end
             vote_account == [tag       |-> vote_acc,
                              creator   |-> tx.user,
                              starts_at |-> tx.starts_at,
                              ends_at   |-> tx.ends_at,
                              title     |-> tx.title] IN
    IF BorrowMutPanics(held, tx.pda)
    THEN Return("Panic", 194, cpi.ledger)
    ELSE IF VoteMainAccountSize(vote_account) > DataLen(cpi.ledger[tx.pda].data)
    THEN Return("BorshIoError", 194, cpi.ledger)
    ELSE Return("Ok", 382, [cpi.ledger EXCEPT ![tx.pda].data = vote_account])

---------------------------------------------------------------------------
(* vote *)

VotePdaSeeds(vote_title) == <<"vote_account", vote_title>>

VoteUserPdaSeeds(title, user) == <<"user_vote", title, user>>

VoteSignerSeeds(title, user) == <<"user_vote", title, user>>

\* faulty variant of VoteNotStarted: the comparison turned round
VoteNotStartedInverted(voting_account_data, now) ==
    voting_account_data.starts_at < now

VoteNotStarted(voting_account_data, now) == voting_account_data.starts_at > now

\* faulty variant of VoteEnded: the strict bound of update_vote
VoteEndedStrict(voting_account_data, now) == voting_account_data.ends_at <= now

VoteEnded(voting_account_data, now) == voting_account_data.ends_at < now

\* user.is_signer == false
VoteUserNotSigner(tx) == tx.user_signer = FALSE

\* faulty variant of VoteRecord: voted_to is left as it was deserialised
VoteRecordUntitled(now, tx) ==
    [tag             |-> user_voting_acc,
     last_time_voted |-> now,
     vote_status     |-> tx.vote,
     voted_to        |-> ""]

\* the record the handler builds from the freshly allocated account
VoteRecord(now, tx) ==
    [tag             |-> user_voting_acc,
     last_time_voted |-> now,
     vote_status     |-> tx.vote,
     voted_to        |-> tx.vote_title]

\* the account the record is serialised into
VoteWriteTarget(tx) == tx.user_vote_account

vote(led, now, tx) ==
    IF VoteUserNotSigner(tx)
    THEN Return("UserSigningNeeded", 204, led)
    ELSE IF tx.user_writable = FALSE
    THEN Return("UsersAccountMustBeMutable", 208, led)
    ELSE IF tx.user_vote_writable = FALSE
    THEN Return("PDAsAccountMustBeMutable", 212, led)
    ELSE IF tx.system_program # system_program_address
    THEN Return("InvalidSystemProgram", 216, led)
    ELSE LET found == find_program_address(VotePdaSeeds(tx.vote_title)) IN
    IF found.panic
    THEN Return("Panic", 222, led)
    ELSE IF tx.voting_account # found.key
    THEN Return("InvalidPdaAddress", 230, led)
    ELSE IF led[tx.voting_account].owner # program_id
    THEN Return("InvalidAccountOwner", 234, led)
    ELSE LET data_2 == led[tx.voting_account].data IN
    IF DataLen(data_2) < TAG_LEN
    THEN Return("Panic", 238, led)
    ELSE IF data_2.tag # vote_acc
    THEN Return("InvalidAccountData", 239, led)
    ELSE LET voting_account_data == data_2 IN
    IF VoteNotStarted(voting_account_data, now)
    THEN Return("VotingNotStarted", 246, led)
    ELSE IF VoteEnded(voting_account_data, now)
    THEN Return("VotingEnded", 250, led)
    ELSE LET ufound == find_program_address(
                           VoteUserPdaSeeds(voting_account_data.title, tx.user)) IN
    IF ufound.panic
    THEN Return("Panic", 253, led)
    ELSE IF ufound.key # tx.user_vote_account
    THEN Return("InvalidPdaAddress", 262, led)
    ELSE LET cpi == invoke_signed(led, tx.user, tx.user_signer, tx.user_vote_account,
                                  UserVotingAccountSpace, {tx.voting_account},
                                  VoteSignerSeeds(voting_account_data.title, tx.user),
                                  ufound.bump) IN
    IF cpi.result # "Ok"
    THEN Return(cpi.result, 288, led)
    ELSE LET \* data_2 and data_3 are alive to the end of the branch
             held == {tx.voting_account, tx.user_vote_account}
             user_account == VoteRecord(now, tx) IN
    IF BorrowMutPanics(held, VoteWriteTarget(tx))
    THEN Return("Panic", 296, cpi.ledger)
    ELSE IF UserVotingAccountSize(user_account)
                > DataLen(cpi.ledger[VoteWriteTarget(tx)].data)
    THEN Return("BorshIoError", 296, cpi.ledger)
    ELSE Return("Ok", 382,
                [cpi.ledger EXCEPT ![VoteWriteTarget(tx)].data = user_account])

---------------------------------------------------------------------------
(* update_vote *)

UpdateVotePdaSeeds(vote_title) == <<"vote_account", vote_title>>

UpdateVoteUserPdaSeeds(vote_title, user) == <<"user_vote", vote_title, user>>

\* faulty variant of UpdateVoteTitleInvalid: the comparison turned round
UpdateVoteTitleInvalidInverted(vote_title) == Len(vote_title) > MIN_TITLE_LEN

UpdateVoteTitleInvalid(vote_title) == Len(vote_title) < MIN_TITLE_LEN

UpdateVoteNotStarted(voting_account_data, now) == voting_account_data.starts_at > now

\* faulty variant of UpdateVoteEnded: the inclusive bound of vote
UpdateVoteEndedInclusive(voting_account_data, now) == voting_account_data.ends_at < now

UpdateVoteEnded(voting_account_data, now) == voting_account_data.ends_at <= now

\* faulty variant of UpdateVoteUserNotSigner: the signer flag is not looked at
UpdateVoteSignerUnchecked(tx) == FALSE

\* user.is_signer == false
UpdateVoteUserNotSigner(tx) == tx.user_signer = FALSE

\* faulty variant of UpdateVoteUserPdaMismatch: the comparison left out
UpdateVoteUserPdaUnchecked(user_vote_account, user_vote_pda_addr) == FALSE

\* *user_vote_account.key != user_vote_pda_addr
UpdateVoteUserPdaMismatch(user_vote_account, user_vote_pda_addr) ==
    user_vote_account # user_vote_pda_addr

\* the record the handler builds from the stored one
UpdateVoteRecord(data_2, now, tx) ==
    [data_2 EXCEPT !.vote_status = tx.vote, !.last_time_voted = now]

\* faulty variant of UpdateVoteWriteTarget: the write-back goes to the poll
UpdateVoteWriteTargetPoll(tx) == tx.voting_account

\* the account the record is serialised into
UpdateVoteWriteTarget(tx) == tx.user_vote_account

update_vote(led, now, tx) ==
    IF UpdateVoteUserNotSigner(tx)
    THEN Return("UserSigningNeeded", 307, led)
    ELSE IF led[tx.voting_account].owner # program_id
    THEN Return("InvalidAccountOwner", 311, led)
    ELSE IF led[tx.user_vote_account].owner # program_id
    THEN Return("InvalidAccountOwner", 315, led)
    ELSE IF tx.user_vote_writable = FALSE
    THEN Return("PDAsAccountMustBeMutable", 319, led)
    ELSE IF UpdateVoteTitleInvalid(tx.vote_title)
    THEN Return("TitleInvalidLength", 325, led)
    ELSE LET found == find_program_address(UpdateVotePdaSeeds(tx.vote_title)) IN
    IF found.panic
    THEN Return("Panic", 328, led)
    ELSE IF tx.voting_account # found.key
    THEN Return("InvalidPdaAddress", 336, led)
    ELSE LET ufound == find_program_address(
                           UpdateVoteUserPdaSeeds(tx.vote_title, tx.user)) IN
    IF ufound.panic
    THEN Return("Panic", 339, led)
    ELSE IF UpdateVoteUserPdaMismatch(tx.user_vote_account, ufound.key)
    THEN Return("InvalidPdaAddress", 348, led)
    ELSE LET data == led[tx.voting_account].data IN
    IF DataLen(data) < TAG_LEN
    THEN Return("Panic", 352, led)
    ELSE IF data.tag # vote_acc
    THEN Return("InvalidAccountData", 353, led)
    ELSE LET voting_account_data == data IN
    IF UpdateVoteNotStarted(voting_account_data, now)
    THEN Return("VotingNotStarted", 360, led)
    ELSE IF UpdateVoteEnded(voting_account_data, now)
    THEN Return("VotingEnded", 364, led)
    ELSE LET data_2 == led[tx.user_vote_account].data IN
    IF DataLen(data_2) < TAG_LEN
    THEN Return("Panic", 368, led)
    ELSE IF data_2.tag # user_voting_acc
    THEN Return("InvalidAccountData", 369, led)
    ELSE LET \* the Refs behind data and data_2 are alive to the end of the branch
             held == {tx.voting_account, tx.user_vote_account}
             user_vote_account_data == UpdateVoteRecord(data_2, now, tx) IN
    IF BorrowMutPanics(held, UpdateVoteWriteTarget(tx))
    THEN Return("Panic", 375, led)
    ELSE IF UserVotingAccountSize(user_vote_account_data) > DataLen(data_2)
    THEN Return("BorshIoError", 375, led)
    ELSE Return("Ok", 382,
                [led EXCEPT ![UpdateVoteWriteTarget(tx)].data = user_vote_account_data])

---------------------------------------------------------------------------
(* process_instruction and the host around it *)

\* clock::Clock::get().unwrap().unix_timestamp as u32: the low 32 bits. The
\* timestamps of the model lie in 0 .. 2^31 - 1, where the cast keeps the value
current_time(unix_timestamp) == unix_timestamp

process_instruction(led, unix_timestamp, tx) ==
    IF tx.ix_dis = ShortPayload
    THEN Return("Panic", 108, led)
    ELSE IF tx.ix_dis = create_voting_ix
    THEN create_voting(led, current_time(unix_timestamp), tx)
    ELSE IF tx.ix_dis = vote_ix
    THEN vote(led, current_time(unix_timestamp), tx)
    ELSE IF tx.ix_dis = update_vote_ix
    THEN update_vote(led, current_time(unix_timestamp), tx)
    ELSE Return("InvalidInstructionData", 379, led)

\* faulty variant of Commit: what a failed invocation did stays
CommitAlways(pre, out) == out.ledger

\* the host commits what the invocation did when it returns Ok(()), and
\* nothing of it when it returns an error or panics
Commit(pre, out) == IF out.result = "Ok" THEN out.ledger ELSE pre

NoCall == [op |-> "none"]

\* what is kept of an invocation: its inputs, the ledger before it, its
\* result, and the ledger as the handler left it (`work`)
Observed(op, tx, out) ==
    [op     |-> op,
     tx     |-> tx,
     now    |-> current_time(clock),
     pre    |-> ledger,
     result |-> out.result,
     line   |-> out.line,
     work   |-> out.ledger]

InvokeCreateVoting ==
    /\ last = NoCall
    /\ \E user \in Users, user_signer, user_writable, pda_writable \in BOOLEAN,
          system_program \in SystemProgramKeys, title \in Titles,
          sep \in PollSeparators, starts_at, ends_at \in Times :
         LET tx == [ix_dis         |-> create_voting_ix,
                    user           |-> user,
                    user_signer    |-> user_signer,
                    user_writable  |-> user_writable,
                    pda            |-> ClientPollKey(sep, title),
                    pda_writable   |-> pda_writable,
                    system_program |-> system_program,
                    starts_at      |-> starts_at,
                    ends_at        |-> ends_at,
                    title          |-> title]
             out == process_instruction(ledger, clock, tx)
         IN  /\ ledger' = Commit(ledger, out)
             /\ last' = Observed("create_voting", tx, out)
    /\ UNCHANGED clock

InvokeVote ==
    /\ last = NoCall
    /\ \E user, voter \in Users,
          user_signer, user_writable, user_vote_writable \in BOOLEAN,
          system_program \in SystemProgramKeys, vote_title \in Titles,
          sep \in PollSeparators, v \in BOOLEAN :
         LET tx == [ix_dis             |-> vote_ix,
                    user               |-> user,
                    user_signer        |-> user_signer,
                    user_writable      |-> user_writable,
                    voting_account     |-> ClientPollKey(sep, vote_title),
                    user_vote_account  |-> ClientVoterKey(vote_title, voter),
                    user_vote_writable |-> user_vote_writable,
                    system_program     |-> system_program,
                    vote               |-> v,
                    vote_title         |-> vote_title]
             out == process_instruction(ledger, clock, tx)
         IN  /\ ledger' = Commit(ledger, out)
             /\ last' = Observed("vote", tx, out)
    /\ UNCHANGED clock

InvokeUpdateVote ==
    /\ last = NoCall
    /\ \E user, voter \in Users, user_signer, user_vote_writable \in BOOLEAN,
          vote_title, account_title \in Titles, sep \in PollSeparators,
          v \in BOOLEAN :
         LET tx == [ix_dis             |-> update_vote_ix,
                    user               |-> user,
                    user_signer        |-> user_signer,
                    voting_account     |-> ClientPollKey(sep, account_title),
                    user_vote_account  |-> ClientVoterKey(account_title, voter),
                    user_vote_writable |-> user_vote_writable,
                    vote               |-> v,
                    vote_title         |-> vote_title]
             out == process_instruction(ledger, clock, tx)
         IN  /\ ledger' = Commit(ledger, out)
             /\ last' = Observed("update_vote", tx, out)
    /\ UNCHANGED clock

InvokeOther ==
    /\ last = NoCall
    /\ \E ix_dis \in OtherPayloads :
         LET tx  == [ix_dis |-> ix_dis]
             out == process_instruction(ledger, clock, tx)
         IN  /\ ledger' = Commit(ledger, out)
             /\ last' = Observed("other", tx, out)
    /\ UNCHANGED clock

\* the result reaches the caller; the host takes the next instruction
Surface ==
    /\ last # NoCall
    /\ last' = NoCall
    /\ UNCHANGED <<ledger, clock>>

\* the clock sysvar does not go back
Tick ==
    /\ last = NoCall
    /\ \E t \in Times : t > clock /\ clock' = t
    /\ UNCHANGED <<ledger, last>>

Next ==
    \/ InvokeCreateVoting
    \/ InvokeVote
    \/ InvokeUpdateVote
    \/ InvokeOther
    \/ Surface
    \/ Tick

\* the deployed program on a ledger that holds none of its accounts
Init ==
    /\ ledger = Genesis
    /\ clock = 0
    /\ last = NoCall

Spec == Init /\ [][Next]_vars

---------------------------------------------------------------------------
(* The handlers as functions of the accounts they are handed.              *)
(* process_instruction reads the poll and the voter record out of the      *)
(* AccountInfo slice and checks owner, address and tag before it trusts    *)
(* them. SpecAccounts draws the content of those accounts from a bounded   *)
(* set: no record, or a poll record that meets create_voting's field       *)
(* checks (at the address either derivation gives its title), with or      *)
(* without voter records of the two users.                                 *)

PollRecord(creator, starts_at, ends_at, title) ==
    [owner |-> program_id,
     data  |-> [tag       |-> vote_acc,
                creator   |-> creator,
                starts_at |-> starts_at,
                ends_at   |-> ends_at,
                title     |-> title]]

VoterRecord(last_time_voted, vote_status, voted_to) ==
    [owner |-> program_id,
     data  |-> [tag             |-> user_voting_acc,
                last_time_voted |-> last_time_voted,
                vote_status     |-> vote_status,
                voted_to        |-> voted_to]]

\* the window of the drawn poll
DrawnStart == 1

DrawnEnd == MaxTime

VoterDraws == {"none", "yes", "no"}

DrawnVoter(draw) ==
    IF draw = "none" THEN NoAccount ELSE VoterRecord(DrawnStart, draw = "yes", GoodTitle)

DrawnLedger(sep, alice, bob) ==
    [a \in Addresses |->
        IF a = ClientPollKey(sep, GoodTitle)
        THEN PollRecord("alice", DrawnStart, DrawnEnd, GoodTitle)
        ELSE IF a = ClientVoterKey(GoodTitle, "alice") THEN DrawnVoter(alice)
        ELSE IF a = ClientVoterKey(GoodTitle, "bob") THEN DrawnVoter(bob)
        ELSE NoAccount]

DrawnLedgers ==
    {Genesis} \cup
    {DrawnLedger(sep, alice, bob) :
        sep \in PollSeparators, alice \in VoterDraws, bob \in {"none", "yes"}}

InitAccounts ==
    /\ ledger \in DrawnLedgers
    /\ clock = 0
    /\ last = NoCall

SpecAccounts == InitAccounts /\ [][Next]_vars

---------------------------------------------------------------------------
(* Vocabulary of the properties *)

IsPoll(acct) == acct.owner = program_id /\ acct.data.tag = vote_acc

IsVoter(acct) == acct.owner = program_id /\ acct.data.tag = user_voting_acc

Derivable(title) == Len(title) <= MAX_SEED_LEN

\* the poll address create_voting accepts and allocates for a title
CreatePollAddress(title) == find_program_address(CreateVotingPdaSeeds(title)).key

\* the address of the voter record of (title, user)
VoterAddress(title, user) == find_program_address(<<"user_vote", title, user>>).key

\* every precondition of CreatePoll but the vacancy of the poll address
CreatePollFieldsValid(l) ==
    /\ l.tx.user_signer
    /\ l.tx.user_writable
    /\ l.tx.pda_writable
    /\ l.tx.system_program = system_program_address
    /\ Derivable(l.tx.title)
    /\ l.tx.pda = CreatePollAddress(l.tx.title)
    /\ l.tx.starts_at >= l.now
    /\ l.tx.ends_at > l.tx.starts_at
    /\ Len(l.tx.title) >= 10
    /\ l.tx.ends_at - l.tx.starts_at <= 1209600

---------------------------------------------------------------------------
(* C1: CreatePoll succeeds whenever all its preconditions hold (signer,    *)
(* writable accounts, system program, derived address, starts_at >= now,   *)
(* ends_at > starts_at, title length >= 10, duration <= 1_209_600, no      *)
(* record at the poll address), and then the poll record is stored with    *)
(* the poll tag, creator = signer and the instruction's fields.            *)
C1_CreatePollSucceeds ==
    (/\ last.op = "create_voting"
     /\ CreatePollFieldsValid(last)
     /\ last.pre[last.tx.pda] = NoAccount)
    => /\ last.result = "Ok"
       /\ ledger[last.tx.pda] =
              PollRecord(last.tx.user, last.tx.starts_at, last.tx.ends_at,
                         last.tx.title)

---------------------------------------------------------------------------
(* C2: for a poll stored by CreatePoll with title T (a poll record at the  *)
(* address CreatePoll allocates for T), a CastVote with vote_title T from  *)
(* an authorized voter without a voter record, at a time inside the poll's *)
(* window, succeeds and creates the voter record with vote_status = vote,  *)
(* last_time_voted = current_time and voted_to = T.                        *)
C2_CastVoteSucceeds ==
    (/\ last.op = "vote"
     /\ Derivable(last.tx.vote_title)
     /\ last.tx.voting_account = CreatePollAddress(last.tx.vote_title)
     /\ IsPoll(last.pre[last.tx.voting_account])
     /\ last.pre[last.tx.voting_account].data.title = last.tx.vote_title
     /\ last.tx.user_signer
     /\ last.tx.user_writable
     /\ last.tx.user_vote_writable
     /\ last.tx.system_program = system_program_address
     /\ last.tx.user_vote_account = VoterAddress(last.tx.vote_title, last.tx.user)
     /\ last.pre[last.tx.user_vote_account] = NoAccount
     /\ last.pre[last.tx.voting_account].data.starts_at <= last.now
     /\ last.now <= last.pre[last.tx.voting_account].data.ends_at)
    => /\ last.result = "Ok"
       /\ ledger[last.tx.user_vote_account] =
              VoterRecord(last.now, last.tx.vote, last.tx.vote_title)

---------------------------------------------------------------------------
(* C3: the poll address CastVote and UpdateVote accept for vote_title T    *)
(* is the poll address CreatePoll accepts and allocates for T.             *)
C3_SamePollDerivation ==
    (\/ last.op = "vote" /\ last.line > 230
     \/ last.op = "update_vote" /\ last.line > 336)
    => last.tx.voting_account = CreatePollAddress(last.tx.vote_title)

---------------------------------------------------------------------------
(* C4: there is at most one voter record per (poll, voter) pair: a voter   *)
(* record sits at the voter address of exactly one user for its poll. A    *)
(* CastVote for a pair that already has a voter record does not succeed    *)
(* and leaves the ledger unchanged; when its validation passes it fails    *)
(* at the allocation, with the allocator's address-in-use error.           *)
C4_OneVoterRecordPerPair ==
    /\ \A a \in Addresses :
          IsVoter(ledger[a]) =>
              /\ Derivable(ledger[a].data.voted_to)
              /\ Cardinality({u \in Users :
                     a = VoterAddress(ledger[a].data.voted_to, u)}) = 1
    /\ (last.op = "vote" /\ last.pre[last.tx.user_vote_account] # NoAccount)
       => /\ last.result # "Ok"
          /\ ledger = last.pre
          /\ (last.line > 262
              => last.line = 288 /\ last.result = "AccountAlreadyInUse")

\* a CastVote passed validation for a pair with a voter record and was refused
C4_Witness ==
    /\ last.op = "vote"
    /\ IsVoter(last.pre[last.tx.user_vote_account])
    /\ last.tx.user_vote_account = VoterAddress(last.tx.vote_title, last.tx.user)
    /\ last.line = 288
    /\ last.result = "AccountAlreadyInUse"
    /\ ledger = last.pre

---------------------------------------------------------------------------
PollExistsWithTitle(led, title) ==
    \E a \in Addresses : IsPoll(led[a]) /\ led[a].data.title = title

(* C5: CreatePoll with the title of an existing poll does not succeed and  *)
(* leaves the ledger (the existing poll with it) unchanged; when every     *)
(* other field is valid it fails at the allocation step.                   *)
C5_DuplicateTitleFails ==
    (last.op = "create_voting" /\ PollExistsWithTitle(last.pre, last.tx.title))
    => /\ last.result # "Ok"
       /\ ledger = last.pre
       /\ (CreatePollFieldsValid(last)
           => last.line = 185 /\ last.result \in AllocationFailures)

\* a valid CreatePoll at the address of an existing poll failed at line 185
C5_Witness ==
    /\ last.op = "create_voting"
    /\ IsPoll(last.pre[last.tx.pda])
    /\ last.pre[last.tx.pda].data.title = last.tx.title
    /\ CreatePollFieldsValid(last)
    /\ last.line = 185
    /\ last.result \in AllocationFailures
    /\ ledger[last.tx.pda] = last.pre[last.tx.pda]

---------------------------------------------------------------------------
(* C6 as stated: for every title shorter than 10, CreatePoll and           *)
(* UpdateVote fail with TitleInvalidLength, whatever the other inputs.     *)
C6_Original ==
    (/\ last.op \in {"create_voting", "update_vote"}
     /\ Len(IF last.op = "create_voting" THEN last.tx.title ELSE last.tx.vote_title)
            < 10)
    => last.result = "TitleInvalidLength"

\* the checks create_voting runs before the title length check
CreateChecksBeforeTitle(l) ==
    /\ l.tx.user_signer
    /\ l.tx.user_writable
    /\ l.tx.pda_writable
    /\ l.tx.system_program = system_program_address
    /\ l.tx.pda = CreatePollAddress(l.tx.title)
    /\ l.tx.starts_at >= l.now
    /\ l.tx.ends_at > l.tx.starts_at

\* the checks update_vote runs before the title length check
UpdateChecksBeforeTitle(l) ==
    /\ l.tx.user_signer
    /\ l.pre[l.tx.voting_account].owner = program_id
    /\ l.pre[l.tx.user_vote_account].owner = program_id
    /\ l.tx.user_vote_writable

(* C6 amended: for every title shorter than 10, CreatePoll and UpdateVote  *)
(* fail, and the error is TitleInvalidLength exactly when every check the  *)
(* handler runs before the title length check passes.                      *)
C6_ShortTitleFails ==
    /\ (last.op = "create_voting" /\ Len(last.tx.title) < 10)
       => /\ last.result # "Ok"
          /\ last.result = "TitleInvalidLength" <=> CreateChecksBeforeTitle(last)
    /\ (last.op = "update_vote" /\ Len(last.tx.vote_title) < 10)
       => /\ last.result # "Ok"
          /\ last.result = "TitleInvalidLength" <=> UpdateChecksBeforeTitle(last)

\* an UpdateVote on program-owned accounts was refused for its short title
C6_Witness ==
    /\ last.op = "update_vote"
    /\ Len(last.tx.vote_title) < 10
    /\ UpdateChecksBeforeTitle(last)
    /\ last.result = "TitleInvalidLength"

---------------------------------------------------------------------------
VoteOtherChecksPass(l) ==
    /\ l.tx.user_signer
    /\ l.tx.user_writable
    /\ l.tx.user_vote_writable
    /\ l.tx.system_program = system_program_address
    /\ Derivable(l.tx.vote_title)
    /\ l.tx.voting_account = find_program_address(VotePdaSeeds(l.tx.vote_title)).key
    /\ IsPoll(l.pre[l.tx.voting_account])
    /\ l.tx.user_vote_account =
           VoterAddress(l.pre[l.tx.voting_account].data.title, l.tx.user)

(* C7: CastVote on an existing poll with all non-temporal checks passing   *)
(* fails VotingNotStarted when current_time < starts_at, fails VotingEnded *)
(* when current_time > ends_at, and passes the time check when             *)
(* starts_at <= current_time <= ends_at, current_time = ends_at included.  *)
C7_CastVoteWindow ==
    (last.op = "vote" /\ VoteOtherChecksPass(last))
    => LET poll == last.pre[last.tx.voting_account].data IN
       /\ last.now < poll.starts_at => last.result = "VotingNotStarted"
       /\ last.now > poll.ends_at => last.result = "VotingEnded"
       /\ (poll.starts_at <= last.now /\ last.now <= poll.ends_at)
          => /\ last.line > 250
             /\ last.result \notin {"VotingNotStarted", "VotingEnded"}

\* a CastVote at current_time = ends_at went past the time check
C7_Witness ==
    /\ last.op = "vote"
    /\ VoteOtherChecksPass(last)
    /\ last.now = last.pre[last.tx.voting_account].data.ends_at
    /\ last.line > 250

---------------------------------------------------------------------------
UpdateOtherChecksPass(l) ==
    /\ l.tx.user_signer
    /\ IsPoll(l.pre[l.tx.voting_account])
    /\ IsVoter(l.pre[l.tx.user_vote_account])
    /\ l.tx.user_vote_writable
    /\ Len(l.tx.vote_title) >= 10
    /\ Derivable(l.tx.vote_title)
    /\ l.tx.voting_account =
           find_program_address(UpdateVotePdaSeeds(l.tx.vote_title)).key
    /\ l.tx.user_vote_account = VoterAddress(l.tx.vote_title, l.tx.user)

(* C8: UpdateVote on an existing poll and voter record with all            *)
(* non-temporal checks passing fails VotingEnded when current_time =       *)
(* ends_at, fails VotingNotStarted when current_time < starts_at, and      *)
(* passes the time check exactly when starts_at <= current_time < ends_at. *)
C8_UpdateVoteWindow ==
    (last.op = "update_vote" /\ UpdateOtherChecksPass(last))
    => LET poll == last.pre[last.tx.voting_account].data IN
       /\ last.now = poll.ends_at => last.result = "VotingEnded"
       /\ last.now < poll.starts_at => last.result = "VotingNotStarted"
       /\ last.line > 364 <=> (poll.starts_at <= last.now /\ last.now < poll.ends_at)
       /\ last.line > 364 => last.result \notin {"VotingNotStarted", "VotingEnded"}

\* an UpdateVote at current_time = ends_at was refused
C8_Witness ==
    /\ last.op = "update_vote"
    /\ UpdateOtherChecksPass(last)
    /\ last.now = last.pre[last.tx.voting_account].data.ends_at
    /\ last.result = "VotingEnded"

---------------------------------------------------------------------------
(* C9: an UpdateVote that passes validation against an existing poll and   *)
(* the signer's voter record succeeds and changes vote_status and          *)
(* last_time_voted of that record and nothing else.                        *)
C9_UpdateVoteWritesTwoFields ==
    (/\ last.op = "update_vote"
     /\ UpdateOtherChecksPass(last)
     /\ last.pre[last.tx.voting_account].data.starts_at <= last.now
     /\ last.now < last.pre[last.tx.voting_account].data.ends_at)
    => /\ last.result = "Ok"
       /\ ledger = [last.pre EXCEPT ![last.tx.user_vote_account].data =
                       [@ EXCEPT !.vote_status = last.tx.vote,
                                 !.last_time_voted = last.now]]

---------------------------------------------------------------------------
\* the lines of the three write-backs and of the final Ok(())
WriteLines == {194, 296, 375, 382}

(* C10: an invocation that ends in failure leaves every record as it was,  *)
(* and a handler has allocated or written nothing when it leaves anywhere  *)
(* but at its write-back or at its end.                                    *)
C10_FailureChangesNothing ==
    last.op # "none"
    => /\ last.result # "Ok" => ledger = last.pre
       /\ last.work # last.pre => last.line \in WriteLines

\* a CastVote failed after its allocation and the ledger is as before
C10_Witness ==
    /\ last.op = "vote"
    /\ last.result = "Panic"
    /\ last.line = 296
    /\ last.work # last.pre
    /\ ledger = last.pre

---------------------------------------------------------------------------
\* the error the ordered checks of CreatePoll give an invocation, "none"
\* when all nine pass; the derived poll address of a title is the address
\* its seeds hash to
CreatePollFirstError(l) ==
    IF ~l.tx.user_signer THEN "UserSigningNeeded"
    ELSE IF ~l.tx.user_writable THEN "UsersAccountMustBeMutable"
    ELSE IF ~l.tx.pda_writable THEN "PDAsAccountMustBeMutable"
    ELSE IF l.tx.system_program # system_program_address
    THEN "InvalidSystemProgram"
    ELSE IF l.tx.pda # create_program_address(CreateVotingPdaSeeds(l.tx.title),
                                              FIRST_BUMP)
    THEN "InvalidPdaAddress"
    ELSE IF ~(l.tx.starts_at >= l.now) THEN "InvalidStartingTime"
    ELSE IF ~(l.tx.ends_at > l.tx.starts_at) THEN "InvalidEndingTime"
    ELSE IF ~(Len(l.tx.title) >= 10) THEN "TitleInvalidLength"
    ELSE IF ~(l.tx.ends_at - l.tx.starts_at <= 1209600)
    THEN "MaxVotingTimeExceeded"
    ELSE "none"

CreatePollReturnsFirstError(l) ==
    IF CreatePollFirstError(l) # "none"
    THEN l.result = CreatePollFirstError(l)
    ELSE l.line > 159

(* C11: CreatePoll returns the error of the first failing check in the    *)
(* order signer, creator writable, poll storage writable, allocator       *)
(* reference, derived poll address, starts_at >= current_time, ends_at >  *)
(* starts_at, title length >= 10, duration <= 1_209_600; when all pass it *)
(* goes on to the allocation.                                             *)
C11_CreatePollCheckOrder ==
    last.op = "create_voting" => CreatePollReturnsFirstError(last)

\* the same order for the titles find_program_address accepts as a seed,
\* and for every title when one of the first four checks fails
CreatePollCheckOrderDerivable ==
    (/\ last.op = "create_voting"
     /\ \/ Derivable(last.tx.title)
        \/ CreatePollFirstError(last) \in
               {"UserSigningNeeded", "UsersAccountMustBeMutable",
                "PDAsAccountMustBeMutable", "InvalidSystemProgram"})
    => CreatePollReturnsFirstError(last)

---------------------------------------------------------------------------
\* the constraints on the fields of a poll record
PollFieldsValid(starts_at, ends_at, title) ==
    /\ ends_at > starts_at
    /\ Len(title) >= 10
    /\ Len(title) <= 50
    /\ ends_at - starts_at <= 1209600

(* C12: every poll record satisfies ends_at > starts_at, 10 <= title      *)
(* length <= 50 and ends_at - starts_at <= 1_209_600, and its starts_at   *)
(* is not before the clock at its creation: this holds of every poll      *)
(* record in the committed ledger and in the ledger a handler leaves, and *)
(* of the fields of every CreatePoll that passes validation, which are    *)
(* the fields of the only poll records the program builds.                *)
C12_PollRecordsValid ==
    /\ \A a \in Addresses :
           /\ IsPoll(ledger[a])
                  => PollFieldsValid(ledger[a].data.starts_at,
                                     ledger[a].data.ends_at, ledger[a].data.title)
           /\ (last # NoCall /\ IsPoll(last.work[a]))
                  => PollFieldsValid(last.work[a].data.starts_at,
                                     last.work[a].data.ends_at,
                                     last.work[a].data.title)
    /\ (last.op = "create_voting" /\ last.line > 159)
           => /\ PollFieldsValid(last.tx.starts_at, last.tx.ends_at, last.tx.title)
              /\ last.tx.starts_at >= last.now

C12_Witness ==
    /\ last.op = "create_voting"
    /\ last.line > 159
    /\ last.tx.starts_at = last.now
    /\ last.tx.ends_at = last.tx.starts_at + 1
    /\ last.tx.title = GoodTitle
    /\ \E a \in Addresses : IsPoll(ledger[a])

---------------------------------------------------------------------------
\* the account an invocation that reached its write-back serialises into
WriteTarget(l) ==
    IF l.op = "create_voting" THEN l.tx.pda
    ELSE IF l.op = "vote" THEN VoteWriteTarget(l.tx)
    ELSE UpdateVoteWriteTarget(l.tx)

ReachedWriteBack(l) ==
    /\ l.op \in {"create_voting", "vote", "update_vote"}
    /\ l.line \in WriteLines

(* C13: no invocation, successful or failing, changes or removes a poll   *)
(* record: a step leaves every poll record of the ledger as it was, the   *)
(* ledger a handler leaves holds every poll record unchanged, and the     *)
(* account a handler serialises into at its write-back is not a poll      *)
(* record.                                                                *)
C13_PollRecordsFrozen ==
    [][/\ \A a \in Addresses :
              /\ IsPoll(ledger[a]) => ledger'[a] = ledger[a]
              /\ (last' # NoCall /\ IsPoll(last'.pre[a]))
                     => last'.work[a] = last'.pre[a]
       /\ ReachedWriteBack(last')
              => ~IsPoll(last'.pre[WriteTarget(last')])]_vars

C13_Witness ==
    /\ last.op = "update_vote"
    /\ last.line = 375
    /\ IsPoll(last.pre[last.tx.voting_account])
    /\ ledger[last.tx.voting_account] = last.pre[last.tx.voting_account]

---------------------------------------------------------------------------
(* C14: a payload that does not begin with one of the three operation     *)
(* tags, a payload shorter than 8 bytes included, gets the "unrecognized  *)
(* instruction" error (InvalidInstructionData), runs no handler and       *)
(* changes no record; a payload that begins with a tag leaves through its *)
(* own handler.                                                           *)
C14_DispatchByTag ==
    /\ last.op = "other"
           => /\ last.result = "InvalidInstructionData"
              /\ last.line = 379
              /\ last.work = last.pre
              /\ ledger = last.pre
    /\ last.op = "create_voting" => last.line \in (109 .. 197) \cup {382}
    /\ last.op = "vote" => last.line \in (197 .. 301) \cup {382}
    /\ last.op = "update_vote" => last.line \in (301 .. 378) \cup {382}

\* the same for the payloads of at least 8 bytes
DispatchByTagOfFullPayloads ==
    /\ (last.op = "other" /\ last.tx.ix_dis # ShortPayload)
           => /\ last.result = "InvalidInstructionData"
              /\ last.line = 379
              /\ last.work = last.pre
              /\ ledger = last.pre
    /\ last.op = "create_voting" => last.line \in (109 .. 197) \cup {382}
    /\ last.op = "vote" => last.line \in (197 .. 301) \cup {382}
    /\ last.op = "update_vote" => last.line \in (301 .. 378) \cup {382}

---------------------------------------------------------------------------
(* C15: in CreatePoll and CastVote the signer seeds handed to the         *)
(* allocation are the seeds the target address was derived from, followed *)
(* by the bump, so the allocation of a creation that passed validation is *)
(* never refused for lack of authorization.                               *)
C15_SignerSeedsDeriveTarget ==
    /\ (last.op = "create_voting" /\ last.line > 159)
           => /\ CreateVotingSignerSeeds(last.tx.title, last.tx.user)
                     = CreateVotingPdaSeeds(last.tx.title)
              /\ last.result # "PrivilegeEscalation"
    /\ (/\ last.op = "vote"
        /\ last.line > 262
        /\ IsPoll(last.pre[last.tx.voting_account]))
           => /\ VoteSignerSeeds(last.pre[last.tx.voting_account].data.title,
                                 last.tx.user)
                     = VoteUserPdaSeeds(last.pre[last.tx.voting_account].data.title,
                                        last.tx.user)
              /\ last.result # "PrivilegeEscalation"

---------------------------------------------------------------------------
\* the (poll, voter) pair of an UpdateVote has no voter record: nothing
\* program-owned with the voter tag at the voter address of the
\* instruction's title and the invoking user
NoVoterRecord(l) ==
    Derivable(l.tx.vote_title)
        => ~IsVoter(l.pre[VoterAddress(l.tx.vote_title, l.tx.user)])

(* C16: an UpdateVote for a pair without a voter record fails in          *)
(* validation (before the write-back of line 375) and creates nothing;    *)
(* a voter record appears in the ledger only through a successful         *)
(* CastVote that allocated it, so a successful UpdateVote is preceded by  *)
(* a successful CastVote for its pair.                                    *)
C16_UpdateNeedsVoterRecord ==
    [][/\ (last'.op = "update_vote" /\ NoVoterRecord(last'))
              => /\ last'.result # "Ok"
                 /\ last'.line < 375
                 /\ last'.work = last'.pre
                 /\ ledger' = last'.pre
       /\ \A a \in Addresses :
              (~IsVoter(ledger[a]) /\ IsVoter(ledger'[a]))
                  => /\ last'.op = "vote"
                     /\ last'.result = "Ok"
                     /\ a = last'.tx.user_vote_account]_vars

\* alice, without a record of her own, passes the poll and the record of
\* bob to UpdateVote inside the window
C16_Witness ==
    /\ last.op = "update_vote"
    /\ last.tx.user_signer
    /\ last.tx.user_vote_writable
    /\ Derivable(last.tx.vote_title)
    /\ IsPoll(last.pre[last.tx.voting_account])
    /\ last.pre[last.tx.voting_account].data.title = last.tx.vote_title
    /\ last.pre[last.tx.voting_account].data.starts_at <= last.now
    /\ last.now < last.pre[last.tx.voting_account].data.ends_at
    /\ IsVoter(last.pre[last.tx.user_vote_account])
    /\ NoVoterRecord(last)
    /\ last.result = "InvalidPdaAddress"
    /\ last.line = 348
    /\ ledger = last.pre

---------------------------------------------------------------------------
\* the titles a voter address can be derived from
DerivableTitles == {t \in Titles : Derivable(t)}

\* the invocation got as far as allocating (CastVote) or writing back
\* (UpdateVote) the account it was given as the voter record
ReachedVoterRecord(l) ==
    \/ l.op = "vote" /\ l.line >= 288
    \/ l.op = "update_vote" /\ l.line >= 375

(* C17: the voter record of voter V is created or changed only by a       *)
(* CastVote or UpdateVote that V signed: when the account at a voter      *)
(* address of V differs, in the committed ledger or in the ledger the     *)
(* handler leaves, from what it was before the invocation, the invoking   *)
(* user is V and its signer flag is set; and an invocation that gets as   *)
(* far as allocating or writing the voter account it was given is signed  *)
(* and was given a voter address of its own user, never one of another.   *)
C17_OnlyTheVoterWrites ==
    /\ \A t \in DerivableTitles, V \in Users :
           (/\ last # NoCall
            /\ \/ ledger[VoterAddress(t, V)] # last.pre[VoterAddress(t, V)]
               \/ last.work[VoterAddress(t, V)] # last.pre[VoterAddress(t, V)])
           => /\ last.op \in {"vote", "update_vote"}
              /\ last.tx.user = V
              /\ last.tx.user_signer
    /\ ReachedVoterRecord(last)
           => /\ last.tx.user_signer
              /\ \E t \in DerivableTitles :
                     last.tx.user_vote_account = VoterAddress(t, last.tx.user)
              /\ \A t \in DerivableTitles, V \in Users \ {last.tx.user} :
                     last.tx.user_vote_account # VoterAddress(t, V)

\* bob casts a vote that allocates his voter account while alice has hers
C17_Witness ==
    /\ last.op = "vote"
    /\ last.line = 296
    /\ last.tx.user = "bob"
    /\ IsVoter(last.pre[VoterAddress(GoodTitle, "alice")])
    /\ last.work[VoterAddress(GoodTitle, "bob")]
           # last.pre[VoterAddress(GoodTitle, "bob")]
    /\ last.work[VoterAddress(GoodTitle, "alice")]
           = last.pre[VoterAddress(GoodTitle, "alice")]

---------------------------------------------------------------------------
\* last_time_voted of a voter record lies in the window of a poll record
InWindow(voter, poll) ==
    /\ poll.starts_at <= voter.last_time_voted
    /\ voter.last_time_voted <= poll.ends_at

\* every voter record of a ledger lies in the window of the poll it names
VotersInWindow(led) ==
    \A a \in Addresses, p \in Addresses :
        (/\ IsVoter(led[a])
         /\ IsPoll(led[p])
         /\ led[p].data.title = led[a].data.voted_to)
        => InWindow(led[a].data, led[p].data)

---------------------------------------------------------------------------
\* every voter record of a ledger names the title of a poll record of the
\* ledger and sits at the voter address of that title and some user
VotersReferToPolls(led) ==
    \A a \in Addresses :
        IsVoter(led[a])
            => /\ PollExistsWithTitle(led, led[a].data.voted_to)
               /\ Derivable(led[a].data.voted_to)
               /\ \E u \in Users : a = VoterAddress(led[a].data.voted_to, u)

---------------------------------------------------------------------------
\* after the end of a poll no CastVote and no UpdateVote for it passes the
\* time check, and at the end itself no UpdateVote does
VotingClosedAfterEnd ==
    /\ (/\ last.op = "vote"
        /\ IsPoll(last.pre[last.tx.voting_account])
        /\ last.now > last.pre[last.tx.voting_account].data.ends_at)
           => /\ last.line <= 250
              /\ last.result # "Ok"
              /\ ledger = last.pre
    /\ (/\ last.op = "update_vote"
        /\ IsPoll(last.pre[last.tx.voting_account])
        /\ last.now >= last.pre[last.tx.voting_account].data.ends_at)
           => /\ last.line <= 364
              /\ last.result # "Ok"
              /\ ledger = last.pre

(* C20: once current_time > ends_at of a poll no CastVote or UpdateVote   *)
(* for it succeeds, at current_time == ends_at no UpdateVote succeeds,    *)
(* and at current_time == ends_at a CastVote that is valid otherwise,     *)
(* from a voter without a record, still creates the voter record.         *)
C20_FrozenAfterEnd ==
    /\ VotingClosedAfterEnd
    /\ (/\ last.op = "vote"
        /\ VoteOtherChecksPass(last)
        /\ last.now = last.pre[last.tx.voting_account].data.ends_at
        /\ last.pre[last.tx.user_vote_account] = NoAccount)
           => /\ last.result = "Ok"
              /\ IsVoter(ledger[last.tx.user_vote_account])

====
